---- MODULE Spec2Model ----
(***************************************************************************)
(* Model of the Kokoro TTS MCP server, src/src/mcp_kokoro/__init__.py:     *)
(* the speak tool, _speak_sync (disk cache, producer loop, playback        *)
(* worker thread) and initialize_pipeline.                                 *)
(*                                                                         *)
(* Strings are sequences of one-character strings.  Audio samples are      *)
(* integers scaled by Scale (amplitude 1.0 is Scale).                      *)
(***************************************************************************)
EXTENDS Integers, Sequences, FiniteSets, TLC

\* ------------------------------------------------------------------ bounds
NumInv == 2        \* speak invocations (each may overlap the others)
MaxChunks == 2     \* results the engine yields for one utterance, at most

Invs == 1..NumInv

\* --------------------------------------------------------------- constants
Scale == 100            \* amplitude 1.0

None == "None"
Absent == [state |-> "absent", audio |-> <<>>]      \* no file at the cache path
Corrupt == [state |-> "corrupt", audio |-> <<>>]    \* a file np.load cannot read
Saved(audio) == [state |-> "ok", audio |-> audio]   \* a file holding the array
EndMarker == [end |-> TRUE, audio |-> <<>>]         \* q.put(None)
Chunk(audio) == [end |-> FALSE, audio |-> audio]    \* q.put(audio.copy())

\* ------------------------------------------------------------ pure helpers
Whitespace == {" ", "\n", "\t"}

\* not text or not text.strip()
IsBlank(text) == \A k \in 1..Len(text) : text[k] \in Whitespace

\* text.replace('\n', ' ')
CleanText(text) == [k \in 1..Len(text) |-> IF text[k] = "\n" THEN " " ELSE text[k]]

Digit(n) == CASE n = 0 -> "0" [] n = 1 -> "1" [] n = 2 -> "2" [] n = 3 -> "3"
              [] n = 4 -> "4" [] n = 5 -> "5" [] n = 6 -> "6" [] n = 7 -> "7"
              [] n = 8 -> "8" [] n = 9 -> "9"

\* f"{speed}" of a float given in tenths (10 is 1.0, 15 is 1.5)
FmtSpeed(speed) == <<Digit(speed \div 10), ".", Digit(speed % 10)>>

\* _get_cache_path: the serialised content id; the sha256 digest and the
\* directory prefix are injective and left out
CacheKey(text, voice, speed) == text \o <<"|">> \o voice \o <<"|">> \o FmtSpeed(speed)

Abs(x) == IF x < 0 THEN -x ELSE x

RECURSIVE MaxAbs(_)
\* np.max(np.abs(audio))
MaxAbs(audio) ==
    IF audio = <<>> THEN 0
    ELSE LET m == MaxAbs(Tail(audio))
         IN  IF Abs(Head(audio)) > m THEN Abs(Head(audio)) ELSE m

\* audio / max_val * 0.99, one sample, rounded towards zero
Rescale(s, max_val) ==
    IF s < 0 THEN -((-s * 99) \div max_val) ELSE (s * 99) \div max_val

\* a faulty Normalize, against which C13 is tested: the chunk is passed on
\* as the engine gave it
NormalizeOff(audio) == audio

\* the clipping correction of the producer loop
Normalize(audio) ==
    IF Len(audio) > 0 /\ MaxAbs(audio) > Scale
    THEN [k \in 1..Len(audio) |-> Rescale(audio[k], MaxAbs(audio))]
    ELSE audio

\* the compatibility layer: whether the result has a known shape (audio is
\* not None), and its audio
HasAudio(result) == result.shape = "Result" \/ result.shape = "tuple3"
ExtractAudio(result) == result.audio

RECURSIVE ConcatReversed(_)
\* a faulty Concat, against which C5 is tested: the pieces joined last first
ConcatReversed(pieces) ==
    IF pieces = <<>> THEN <<>> ELSE ConcatReversed(Tail(pieces)) \o Head(pieces)

RECURSIVE Concat(_)
\* np.concatenate(full_audio_pieces)
Concat(pieces) ==
    IF pieces = <<>> THEN <<>> ELSE Head(pieces) \o Concat(Tail(pieces))

\* a faulty QPutEnd, against which C16 is tested: no marker is put
QPutNothing(queue) == queue

\* q.put(None)
QPutEnd(queue) == Append(queue, EndMarker)

\* a faulty QGet, against which C1 is tested: the newest item is taken
QGetNewest(q) == q[Len(q)]

\* q.get() of a non-empty queue.Queue: the oldest item
QGet(q) == Head(q)
QRest(q) == Tail(q)

\* ----------------------------------------------------------------- inputs
Quiet == <<50, -30>>
Loud == <<150, -75>>
Silent == <<>>

\* what the engine's generator may yield: KPipeline.Result objects, legacy
\* (graphemes, phonemes, audio) triples, and a shape the layer does not know
EngineResults ==
    { [shape |-> "Result", audio |-> Quiet],
      [shape |-> "tuple3", audio |-> Loud],
      [shape |-> "Result", audio |-> Silent],
      [shape |-> "tuple2", audio |-> Quiet] }

Voice == <<"v">>
Texts == { <<>>, <<" ", "\n">>, <<"a", "\n", "b">>, <<"a", " ", "b">> }
Speeds == {10}
Requests == [text : Texts, voice : {Voice}, speed : Speeds]

Keys == { CacheKey(CleanText(r.text), r.voice, r.speed) : r \in Requests }

\* ------------------------------------------------------------ result text
\* the strings speak returns, as <<leading word, rest>>
Success == <<"Speech completed successfully.">>
PipelineError ==
    <<"Error", ": Pipeline failed to initialize during server startup.",
      " Check logs for details.">>
SpeakError(e) == <<"Error", " speaking text: ", e>>
NoResult == <<>>
Escaped(e) == <<"raise", e>>     \* an exception leaving speak

\* ------------------------------------------------------------------ state
VARIABLES
    mainpc,             \* main(): "start", "init" (in initialize_pipeline), "serving"
    pipeline,           \* the global pipeline: None or "KPipeline"
    initSaved,          \* redirect_stdout's saved target in initialize_pipeline
    initCount,          \* calls of initialize_pipeline so far
    stdout,             \* what sys.stdout currently is: "stdout" or "stderr"
    cache,              \* CACHE_DIR: key -> Absent, Corrupt or the saved audio
    ipc,                \* each invocation's position in speak / _speak_sync
    req,                \* its (cleaned text, voice, speed)
    old_target,         \* its redirect_stdout's saved target
    cached_audio,       \* the audio it loaded from the cache file
    q,                  \* its queue.Queue
    cpc,                \* its playback_worker: "none", "get", "wait", "exited"
    playback_error,     \* its playback_error
    full_audio_pieces,  \* its full_audio_pieces
    genCount,           \* results its generator has yielded
    outcome,            \* how _speak_sync ended: returned value or exception
    result,             \* what speak gave back to the caller
    hist,               \* history: what the invocation has touched and played
    arg,                \* the input of a function checked on its own
    ret                 \* what the function gave for it

\* the variables of the program
progVars == <<mainpc, pipeline, initSaved, initCount, stdout, cache, ipc, req,
              old_target, cached_audio, q, cpc, playback_error,
              full_audio_pieces, genCount, outcome, result, hist>>

vars == <<mainpc, pipeline, initSaved, initCount, stdout, cache, ipc, req, old_target,
          cached_audio, q, cpc, playback_error, full_audio_pieces, genCount, outcome,
          result, hist, arg, ret>>

NoReq == [text |-> <<>>, voice |-> <<>>, speed |-> 0]
NoOutcome == [how |-> "none", e |-> None]

NoHist ==
    [ after |-> {},            \* the invocations that had returned at its call
      cacheChecked |-> FALSE,  \* cache_path.exists() was evaluated
      engineCalled |-> FALSE,  \* pipeline(...) was called
      deviceCalled |-> FALSE,  \* sd.play was called
      malformed |-> FALSE,     \* a result gave no audio
      engineRaised |-> FALSE,  \* the generator raised
      replayFault |-> FALSE,   \* np.load, sd.play or sd.wait of the replay raised
      loadFault |-> FALSE,     \* np.load of the replay raised
      saveTried |-> FALSE,     \* np.save was called
      stored |-> FALSE,        \* np.save returned without raising
      markerTaken |-> FALSE,   \* the worker took the end marker from the queue
      failedLate |-> FALSE,    \* its worker failed after the invocation returned
      replayed |-> <<>>,       \* the cached buffers it replayed to the end
      events |-> <<>> ]        \* worker: play started (with its chunk), play done

\* the state of the module after import, before main() runs
ProgramInit ==
    /\ mainpc = "start"
    /\ pipeline = None
    /\ initSaved = "stdout"
    /\ initCount = 0
    /\ stdout = "stdout"
    /\ cache = [k \in Keys |-> Absent]
    /\ ipc = [i \in Invs |-> "idle"]
    /\ req = [i \in Invs |-> NoReq]
    /\ old_target = [i \in Invs |-> "stdout"]
    /\ cached_audio = [i \in Invs |-> <<>>]
    /\ q = [i \in Invs |-> <<>>]
    /\ cpc = [i \in Invs |-> "none"]
    /\ playback_error = [i \in Invs |-> None]
    /\ full_audio_pieces = [i \in Invs |-> <<>>]
    /\ genCount = [i \in Invs |-> 0]
    /\ outcome = [i \in Invs |-> NoOutcome]
    /\ result = [i \in Invs |-> NoResult]
    /\ hist = [i \in Invs |-> NoHist]

NoArg == <<>>
NoRet == [done |-> FALSE, value |-> <<>>]

Init == ProgramInit /\ arg = NoArg /\ ret = NoRet

Key(i) == CacheKey(req[i].text, req[i].voice, req[i].speed)

\* a faulty MayInitialize, against which C18 is tested: initialize_pipeline
\* can be entered again while the server is serving
MayInitializeAgain(pc) == pc \in {"start", "serving"}

\* initialize_pipeline is called by main() alone, before mcp.run()
MayInitialize(pc) == pc = "start"

\* ------------------------------------------------- initialize_pipeline
\* with contextlib.redirect_stdout(sys.stderr): entered
InitBegin ==
    /\ MayInitialize(mainpc)
    /\ mainpc' = "init"
    /\ initSaved' = stdout
    /\ initCount' = initCount + 1
    /\ stdout' = "stderr"
    /\ UNCHANGED <<arg, ret>>
    /\ UNCHANGED <<pipeline, cache, ipc, req, old_target, cached_audio, q, cpc,
                   playback_error, full_audio_pieces, genCount, outcome, result, hist>>

\* KPipeline(...) returns or raises; the with block is left either way
InitEnd ==
    /\ mainpc = "init"
    /\ \E ok \in BOOLEAN : pipeline' = IF ok THEN "KPipeline" ELSE None
    /\ stdout' = initSaved
    /\ mainpc' = "serving"
    /\ UNCHANGED <<arg, ret>>
    /\ UNCHANGED <<initSaved, initCount, cache, ipc, req, old_target, cached_audio, q,
                   cpc, playback_error, full_audio_pieces, genCount, outcome, result,
                   hist>>

\* ---------------------------------------------------------------- speak
\* a faulty SpeakGuard, against which C9 is tested: no check of the pipeline
SpeakGuardNoGate(text, pipe) == IF IsBlank(text) THEN "blank" ELSE "run"

\* a faulty SpeakGuard, against which C10 is tested: the pipeline is checked
\* before the text
SpeakGuardGateFirst(text, pipe) ==
    IF pipe = None THEN "unavailable"
    ELSE IF IsBlank(text) THEN "blank"
    ELSE "run"

\* the two guards of speak, in order
SpeakGuard(text, pipe) ==
    IF IsBlank(text) THEN "blank"
    ELSE IF pipe = None THEN "unavailable"
    ELSE "run"

\* a faulty Caught, against which C4 is tested: no handler, the exception
\* leaves _speak_sync
Uncaught(e) == [how |-> "raise", e |-> e]

\* except Exception as e: return e
Caught(e) == [how |-> "return", e |-> e]

\* return None
Returned == [how |-> "return", e |-> None]

\* if error: return f"Error speaking text: {str(error)}"
SpeakResult(o) ==
    IF o.how = "raise" THEN Escaped(o.e)
    ELSE IF o.e # None THEN SpeakError(o.e)
    ELSE Success

\* _speak_sync ends with outcome o and speak returns its string
Finish(i, o) ==
    /\ outcome' = [outcome EXCEPT ![i] = o]
    /\ result' = [result EXCEPT ![i] = SpeakResult(o)]
    /\ ipc' = [ipc EXCEPT ![i] = "returned"]

\* speak(text, voice, speed) is called
SpeakCall(i, r) ==
    /\ mainpc = "serving"
    /\ ipc[i] = "idle"
    /\ i > 1 => ipc[i - 1] # "idle"
    /\ req' = [req EXCEPT ![i] = [r EXCEPT !.text = CleanText(r.text)]]
    /\ hist' = [hist EXCEPT ![i].after = {j \in Invs : ipc[j] = "returned"}]
    /\ LET g == SpeakGuard(r.text, pipeline)
       IN  \/ /\ g = "blank"
              /\ result' = [result EXCEPT ![i] = Success]
              /\ ipc' = [ipc EXCEPT ![i] = "returned"]
           \/ /\ g = "unavailable"
              /\ result' = [result EXCEPT ![i] = PipelineError]
              /\ ipc' = [ipc EXCEPT ![i] = "returned"]
           \/ /\ g = "run"
              /\ result' = result
              /\ ipc' = [ipc EXCEPT ![i] = "lookup"]
    /\ UNCHANGED <<arg, ret>>
    /\ UNCHANGED <<mainpc, pipeline, initSaved, initCount, stdout, cache, old_target,
                   cached_audio, q, cpc, playback_error, full_audio_pieces, genCount,
                   outcome>>

\* ----------------------------------------------------------- _speak_sync
\* lines 77-103: a fresh queue, playback_error, the worker thread started,
\* an empty full_audio_pieces; next is the redirect_stdout block
StartStreaming(i) ==
    /\ q' = [q EXCEPT ![i] = <<>>]
    /\ playback_error' = [playback_error EXCEPT ![i] = None]
    /\ cpc' = [cpc EXCEPT ![i] = "get"]
    /\ full_audio_pieces' = [full_audio_pieces EXCEPT ![i] = <<>>]
    /\ ipc' = [ipc EXCEPT ![i] = "redirect"]

\* if cache_path.exists()
Lookup(i) ==
    /\ ipc[i] = "lookup"
    /\ hist' = [hist EXCEPT ![i].cacheChecked = TRUE]
    /\ \/ /\ cache[Key(i)].state # "absent"
          /\ ipc' = [ipc EXCEPT ![i] = "load"]
          /\ UNCHANGED <<q, cpc, playback_error, full_audio_pieces>>
       \/ /\ cache[Key(i)].state = "absent"
          /\ StartStreaming(i)
    /\ UNCHANGED <<arg, ret>>
    /\ UNCHANGED <<mainpc, pipeline, initSaved, initCount, stdout, cache, req,
                   old_target, cached_audio, genCount, outcome, result>>

\* a faulty OnReplayFault, against which C11 and C20 are tested: the handler
\* passes the exception on and _speak_sync returns it
OnReplayFaultFatal(i) ==
    /\ outcome' = [outcome EXCEPT ![i] = [how |-> "return", e |-> "ReplayError"]]
    /\ result' = [result EXCEPT ![i] = <<"Error", " speaking text: ", "ReplayError">>]
    /\ ipc' = [ipc EXCEPT ![i] = "returned"]
    /\ UNCHANGED <<q, cpc, playback_error, full_audio_pieces>>

\* except Exception as e: print(...) and fall through to regeneration
OnReplayFault(i) ==
    /\ StartStreaming(i)
    /\ UNCHANGED <<outcome, result>>

\* audio = np.load(cache_path); sd.play(audio, 24000): either may raise, and
\* the handler falls through to regeneration
ReplayPlay(i) ==
    /\ ipc[i] = "load"
    /\ \/ /\ cache[Key(i)].state = "ok"
          /\ cached_audio' = [cached_audio EXCEPT ![i] = cache[Key(i)].audio]
          /\ hist' = [hist EXCEPT ![i].deviceCalled = TRUE]
          /\ ipc' = [ipc EXCEPT ![i] = "replay_wait"]
          /\ UNCHANGED <<q, cpc, playback_error, full_audio_pieces, outcome, result>>
       \/ /\ cache[Key(i)].state = "ok"
          /\ cached_audio' = [cached_audio EXCEPT ![i] = cache[Key(i)].audio]
          /\ hist' = [hist EXCEPT ![i].deviceCalled = TRUE, ![i].replayFault = TRUE]
          /\ OnReplayFault(i)
       \/ /\ hist' = [hist EXCEPT ![i].replayFault = TRUE, ![i].loadFault = TRUE]
          /\ UNCHANGED cached_audio
          /\ OnReplayFault(i)
    /\ UNCHANGED <<arg, ret>>
    /\ UNCHANGED <<mainpc, pipeline, initSaved, initCount, stdout, cache, req,
                   old_target, genCount>>

\* sd.wait() of the replay returns (return None) or raises (fall through)
ReplayWait(i) ==
    /\ ipc[i] = "replay_wait"
    /\ \/ /\ hist' = [hist EXCEPT ![i].replayed = Append(@, cached_audio[i])]
          /\ Finish(i, Returned)
          /\ UNCHANGED <<q, cpc, playback_error, full_audio_pieces>>
       \/ /\ hist' = [hist EXCEPT ![i].replayFault = TRUE]
          /\ OnReplayFault(i)
    /\ UNCHANGED <<arg, ret>>
    /\ UNCHANGED <<mainpc, pipeline, initSaved, initCount, stdout, cache, req,
                   old_target, cached_audio, genCount>>

\* with contextlib.redirect_stdout(sys.stderr): entered, and pipeline(...)
\* called; calling None raises and leaves the block at once
EnterRedirect(i) ==
    /\ ipc[i] = "redirect"
    /\ hist' = [hist EXCEPT ![i].engineCalled = TRUE]
    /\ old_target' = [old_target EXCEPT ![i] = stdout]
    /\ \/ /\ pipeline # None
          /\ stdout' = "stderr"
          /\ genCount' = [genCount EXCEPT ![i] = 0]
          /\ ipc' = [ipc EXCEPT ![i] = "gen"]
          /\ UNCHANGED <<outcome, result>>
       \/ /\ pipeline = None
          /\ stdout' = stdout
          /\ genCount' = genCount
          /\ Finish(i, Caught("TypeError"))
    /\ UNCHANGED <<arg, ret>>
    /\ UNCHANGED <<mainpc, pipeline, initSaved, initCount, cache, req, cached_audio, q,
                   cpc, playback_error, full_audio_pieces>>

\* one iteration of the producer loop: the generator yields a result
GenNext(i) ==
    /\ ipc[i] = "gen"
    /\ genCount[i] < MaxChunks
    /\ genCount' = [genCount EXCEPT ![i] = @ + 1]
    /\ \E r \in EngineResults :
          LET audio == Normalize(ExtractAudio(r))
          IN  IF HasAudio(r)
              THEN /\ q' = [q EXCEPT ![i] = Append(@, Chunk(audio))]
                   /\ full_audio_pieces' =
                          [full_audio_pieces EXCEPT ![i] = Append(@, audio)]
                   /\ hist' = hist
              ELSE /\ hist' = [hist EXCEPT ![i].malformed = TRUE]
                   /\ UNCHANGED <<q, full_audio_pieces>>
    /\ UNCHANGED <<arg, ret>>
    /\ UNCHANGED <<mainpc, pipeline, initSaved, initCount, stdout, cache, ipc, req,
                   old_target, cached_audio, cpc, playback_error, outcome, result>>

\* the generator is exhausted: q.put(None), and the with block is left
GenStop(i) ==
    /\ ipc[i] = "gen"
    /\ q' = [q EXCEPT ![i] = QPutEnd(@)]
    /\ stdout' = old_target[i]
    /\ ipc' = [ipc EXCEPT ![i] = "join"]
    /\ UNCHANGED <<arg, ret>>
    /\ UNCHANGED <<mainpc, pipeline, initSaved, initCount, cache, req, old_target,
                   cached_audio, cpc, playback_error, full_audio_pieces, genCount,
                   outcome, result, hist>>

\* the generator raises: the with block is left and the outer handler
\* returns the exception
GenRaise(i) ==
    /\ ipc[i] = "gen"
    /\ stdout' = old_target[i]
    /\ Finish(i, Caught("EngineError"))
    /\ hist' = [hist EXCEPT ![i].engineRaised = TRUE]
    /\ UNCHANGED <<arg, ret>>
    /\ UNCHANGED <<mainpc, pipeline, initSaved, initCount, cache, req, old_target,
                   cached_audio, q, cpc, playback_error, full_audio_pieces, genCount>>

\* a faulty SaveOutcomes, against which C20 is tested: np.save returns
\* without having written over a file that exists
SaveOutcomesNoOverwrite(old, full_audio) ==
    { [ok |-> TRUE, file |-> IF old = Absent THEN Saved(full_audio) ELSE old] }

\* what np.save may do at the path: write the array, raise before the file
\* is opened, or raise leaving a truncated file
SaveOutcomes(old, full_audio) ==
    { [ok |-> TRUE, file |-> Saved(full_audio)],
      [ok |-> FALSE, file |-> old],
      [ok |-> FALSE, file |-> Corrupt] }

\* t.join() returns; if playback_error: raise playback_error; otherwise
\* if full_audio_pieces: np.save(cache_path, np.concatenate(...)); return None
JoinSave(i) ==
    /\ ipc[i] = "join"
    /\ cpc[i] = "exited"
    /\ IF playback_error[i] # None
       THEN /\ Finish(i, Caught(playback_error[i]))
            /\ UNCHANGED <<cache, hist>>
       ELSE /\ Finish(i, Returned)
            /\ IF full_audio_pieces[i] # <<>>
               THEN \E new \in SaveOutcomes(cache[Key(i)], Concat(full_audio_pieces[i])) :
                       /\ cache' = [cache EXCEPT ![Key(i)] = new.file]
                       /\ hist' = [hist EXCEPT ![i].saveTried = TRUE,
                                               ![i].stored = new.ok]
               ELSE UNCHANGED <<cache, hist>>
    /\ UNCHANGED <<arg, ret>>
    /\ UNCHANGED <<mainpc, pipeline, initSaved, initCount, stdout, req, old_target,
                   cached_audio, q, cpc, playback_error, full_audio_pieces, genCount>>

\* ------------------------------------------------------- playback_worker
\* audio_chunk = q.get(); the marker ends the loop, a chunk goes to sd.play,
\* which may raise
WorkerGet(i) ==
    /\ cpc[i] = "get"
    /\ q[i] # <<>>
    /\ q' = [q EXCEPT ![i] = QRest(@)]
    /\ LET audio_chunk == QGet(q[i])
       IN  \/ /\ audio_chunk.end
              /\ cpc' = [cpc EXCEPT ![i] = "exited"]
              /\ hist' = [hist EXCEPT ![i].markerTaken = TRUE]
              /\ UNCHANGED playback_error
           \/ /\ ~audio_chunk.end
              /\ cpc' = [cpc EXCEPT ![i] = "wait"]
              /\ hist' = [hist EXCEPT
                     ![i].deviceCalled = TRUE,
                     ![i].events = Append(@, [ev |-> "play", audio |-> audio_chunk.audio])]
              /\ UNCHANGED playback_error
           \/ /\ ~audio_chunk.end
              /\ cpc' = [cpc EXCEPT ![i] = "exited"]
              /\ playback_error' = [playback_error EXCEPT ![i] = "PlaybackError"]
              /\ hist' = [hist EXCEPT ![i].deviceCalled = TRUE,
                                      ![i].failedLate = (ipc[i] = "returned")]
    /\ UNCHANGED <<arg, ret>>
    /\ UNCHANGED <<mainpc, pipeline, initSaved, initCount, stdout, cache, ipc, req,
                   old_target, cached_audio, full_audio_pieces, genCount, outcome,
                   result>>

\* sd.wait() returns, or raises
WorkerWait(i) ==
    /\ cpc[i] = "wait"
    /\ \/ /\ cpc' = [cpc EXCEPT ![i] = "get"]
          /\ hist' = [hist EXCEPT
                 ![i].events = Append(@, [ev |-> "done", audio |-> <<>>])]
          /\ UNCHANGED playback_error
       \/ /\ cpc' = [cpc EXCEPT ![i] = "exited"]
          /\ playback_error' = [playback_error EXCEPT ![i] = "PlaybackError"]
          /\ hist' = [hist EXCEPT ![i].failedLate = (ipc[i] = "returned")]
    /\ UNCHANGED <<arg, ret>>
    /\ UNCHANGED <<mainpc, pipeline, initSaved, initCount, stdout, cache, ipc, req,
                   old_target, cached_audio, q, full_audio_pieces, genCount, outcome,
                   result>>

\* ------------------------------------------------------------------ spec
Next ==
    \/ InitBegin
    \/ InitEnd
    \/ \E i \in Invs, r \in Requests : SpeakCall(i, r)
    \/ \E i \in Invs : Lookup(i)
    \/ \E i \in Invs : ReplayPlay(i)
    \/ \E i \in Invs : ReplayWait(i)
    \/ \E i \in Invs : EnterRedirect(i)
    \/ \E i \in Invs : GenNext(i)
    \/ \E i \in Invs : GenStop(i)
    \/ \E i \in Invs : GenRaise(i)
    \/ \E i \in Invs : JoinSave(i)
    \/ \E i \in Invs : WorkerGet(i)
    \/ \E i \in Invs : WorkerWait(i)

Spec == Init /\ [][Next]_vars

\* ---------------------------------------------------------------- claims
IsPlay(e) == e.ev = "play"

\* the chunks whose play this invocation's worker started, in order
Plays(i) ==
    LET ps == SelectSeq(hist[i].events, IsPlay)
    IN  [k \in 1..Len(ps) |-> ps[k].audio]

IsPrefix(a, b) == Len(a) <= Len(b) /\ SubSeq(b, 1, Len(a)) = a

RECURSIVE FlatUpTo(_, _)
\* the first n buffers of a sequence of buffers, one after another
FlatUpTo(bufs, n) == IF n = 0 THEN <<>> ELSE FlatUpTo(bufs, n - 1) \o bufs[n]

\* all the audio the worker of this invocation played, in play order
PlayedAudio(i) == FlatUpTo(Plays(i), Len(Plays(i)))

NonBlank(i) == ipc[i] # "idle" /\ ~IsBlank(req[i].text)

IsError(s) == s # <<>> /\ Head(s) = "Error"

\* C1: within one invocation the worker starts the plays in the order the
\* producer pushed the chunks, and starts a play only when the one before
\* it is done: play and done alternate, and the chunks played are a prefix
\* of the chunks pushed.
C1_OrderedPlayback ==
    \A i \in Invs :
        /\ IsPrefix(Plays(i), full_audio_pieces[i])
        /\ \A k \in 1..Len(hist[i].events) :
              hist[i].events[k].ev = (IF k % 2 = 1 THEN "play" ELSE "done")

\* an invocation that played two different chunks to the end and succeeded
C1_Witness ==
    \E i \in Invs :
        /\ ipc[i] = "returned"
        /\ result[i] = Success
        /\ Len(hist[i].events) = 4
        /\ hist[i].events[1].audio # hist[i].events[3].audio

\* C2: when the engine's sequence raises, the end-of-stream marker is still
\* sent, so the worker is not left waiting on its queue: it has left its
\* loop or the marker is in the queue.
C2_EndMarkerAfterEngineFault ==
    \A i \in Invs :
        hist[i].engineRaised =>
            \/ cpc[i] = "exited"
            \/ \E k \in 1..Len(q[i]) : q[i][k].end

\* between sd.play and the end of the matching sd.wait
OnDevice(i) == cpc[i] = "wait" \/ ipc[i] = "replay_wait"

\* C3: at most one invocation is between its device play() and the end of
\* the matching wait().
C3_DeviceSerialized == Cardinality({i \in Invs : OnDevice(i)}) <= 1

Errors == {"EngineError", "PlaybackError", "TypeError"}

\* a fault that ends the invocation: no engine, the engine's sequence
\* raised, or the worker's playback raised
Fault(i) ==
    /\ NonBlank(i)
    /\ \/ pipeline = None
       \/ hist[i].engineRaised
       \/ playback_error[i] # None

\* C4: every invocation that ends has returned a string, never an exception;
\* the string begins with the error indicator exactly when a fault ended
\* the invocation, and is the success confirmation otherwise.
C4_AlwaysAString ==
    \A i \in Invs :
        ipc[i] = "returned" =>
            /\ result[i] \in {Success, PipelineError} \cup {SpeakError(e) : e \in Errors}
            /\ IF Fault(i) THEN IsError(result[i]) ELSE result[i] = Success

\* one invocation ended by an engine fault and one by a playback fault
C4_Witness ==
    \E i, j \in Invs :
        /\ ipc[i] = "returned" /\ ipc[j] = "returned"
        /\ hist[i].engineRaised /\ result[i] = SpeakError("EngineError")
        /\ playback_error[j] # None /\ result[j] = SpeakError("PlaybackError")

\* j is a second, identical call made after the call i had returned with
\* success and at least one chunk played
SecondCall(i, j) ==
    /\ i \in hist[j].after
    /\ NonBlank(i)
    /\ req[i] = req[j]
    /\ result[i] = Success
    /\ Plays(i) # <<>>
    /\ ipc[j] = "returned"

\* the call replayed exactly this audio and did not invoke the engine
HitWith(j, audio) == ~hist[j].engineCalled /\ hist[j].replayed = <<audio>>

C6_NoEntryFromFailedInvocation ==
    \A i \in Invs :
        (playback_error[i] # None \/ hist[i].engineRaised \/ hist[i].malformed)
        => ~hist[i].saveTried

\* C7: an invocation in which a result gave no audio ends with an error.
C7_MalformedResultFails ==
    \A i \in Invs :
        (ipc[i] = "returned" /\ hist[i].malformed) => IsError(result[i])

\* an engine construction or an engine invocation is in progress
EngineBusy == mainpc = "init" \/ \E i \in Invs : ipc[i] = "gen"

\* C8: stdout is redirected to stderr while an engine call is in progress,
\* and is the original stream whenever none is.
C8_StdoutScoped == stdout = (IF EngineBusy THEN "stderr" ELSE "stdout")

Untouched(i) ==
    /\ ~hist[i].cacheChecked
    /\ ~hist[i].engineCalled
    /\ ~hist[i].deviceCalled
    /\ hist[i].events = <<>>
    /\ hist[i].replayed = <<>>
    /\ cpc[i] = "none"

\* C9: with the engine failed, every call with non-blank text returns the
\* engine-unavailable string, without another initialization, without
\* consulting the cache and without playing anything.
C9_EngineUnavailable ==
    \A i \in Invs :
        (mainpc = "serving" /\ pipeline = None /\ NonBlank(i)) =>
            /\ ipc[i] = "returned"
            /\ result[i] = PipelineError
            /\ initCount = 1
            /\ Untouched(i)

\* every invocation was made with non-blank text and the engine failed
C9_Witness ==
    /\ pipeline = None
    /\ \A i \in Invs : NonBlank(i) /\ result[i] = PipelineError

\* C10: a call with empty or whitespace-only text returns the success
\* confirmation without the engine, the cache or the device, whatever the
\* engine's state.
C10_BlankShortcut ==
    \A i \in Invs :
        (ipc[i] # "idle" /\ IsBlank(req[i].text)) =>
            /\ ipc[i] = "returned"
            /\ result[i] = Success
            /\ Untouched(i)

\* with the engine failed, an empty and a whitespace-only text both succeed
C10_Witness ==
    /\ mainpc = "serving"
    /\ pipeline = None
    /\ \E i, j \in Invs :
          /\ ipc[i] = "returned" /\ req[i].text = <<>> /\ result[i] = Success
          /\ ipc[j] = "returned" /\ req[j].text = <<" ", " ">> /\ result[j] = Success

\* C11: an entry that exists but cannot be loaded is treated like a missing
\* one: the invocation replays nothing, starts the worker and the engine,
\* and if it ends with an error, it is a synthesis or playback fault.
C11_UnreadableEntryIsMiss ==
    \A i \in Invs :
        hist[i].loadFault =>
            /\ ipc[i] \in {"redirect", "gen", "join", "returned"}
            /\ cpc[i] # "none"
            /\ hist[i].replayed = <<>>
            /\ ipc[i] = "returned" =>
                  /\ hist[i].engineCalled
                  /\ IsError(result[i]) =>
                        (hist[i].engineRaised \/ playback_error[i] # None)

\* an invocation whose load failed, and which then streamed and succeeded
C11_Witness ==
    \E i \in Invs :
        /\ hist[i].loadFault
        /\ ipc[i] = "returned"
        /\ result[i] = Success
        /\ Plays(i) # <<>>

\* this step is invocation i's np.save raising
SaveFails(i) == ~hist[i].saveTried /\ hist'[i].saveTried /\ ~hist'[i].stored

\* C12: a cache write that fails after the utterance was played is not
\* fatal: the invocation returns the success confirmation and the cache is
\* left as it was, without a new entry for the key.
C12_FailedWriteLeavesNoEntry ==
    [][\A i \in Invs :
          SaveFails(i) => (result'[i] = Success /\ cache' = cache)]_vars


\* ------------------------------------------- the clipping correction alone
MaxSamples == 2     \* samples of one chunk, at most
MaxAmp == 103       \* the largest amplitude of a sample, in 1/Scale

\* amplitudes around the threshold 1.0, and a coarse grid below it
Amps == { a \in -MaxAmp..MaxAmp : Abs(a) >= 97 \/ a % 25 = 0 }
RawChunks == UNION { [1..n -> Amps] : n \in 0..MaxSamples }

InitNormalize == ProgramInit /\ arg \in RawChunks /\ ret = NoRet

\* the producer loop's treatment of one chunk: what it hands to q.put and
\* to full_audio_pieces
NormalizeChunk ==
    /\ ~ret.done
    /\ ret' = [done |-> TRUE, value |-> Normalize(arg)]
    /\ UNCHANGED arg
    /\ UNCHANGED progVars

SpecNormalize == InitNormalize /\ [][NormalizeChunk]_vars

\* C13 as stated: every chunk handed on has a peak of at most 0.99,
\* whatever the peak of the chunk that came from the engine.
C13_PeakAtMost99 == ret.done => MaxAbs(ret.value) <= 99

\* C13 amended: every chunk handed on has a peak of at most 1.0; a chunk whose
\* peak exceeded 1.0 is handed on with peak 0.99, any other chunk unchanged.
C13_PeakAtMostOne ==
    ret.done =>
        /\ MaxAbs(ret.value) <= Scale
        /\ MaxAbs(arg) > Scale => MaxAbs(ret.value) = 99
        /\ MaxAbs(arg) <= Scale => ret.value = arg

\* a chunk with a peak between 0.99 and 1.0 has gone through the correction
C13_Witness == ret.done /\ MaxAbs(arg) = Scale /\ Len(arg) = MaxSamples

\* a chunk with a peak above 1.0 has been rescaled
C13_RescaledWitness == ret.done /\ MaxAbs(arg) > Scale /\ ret.value # arg


\* ------------------------------------------------ the cache key alone
MaxField == 2       \* characters of a text or of a voice, at most

\* texts and voices over a letter and the delimiter of content_id
FieldChars == {"a", "|"}
Fields == UNION { [1..n -> FieldChars] : n \in 1..MaxField }
Triples == [text : Fields, voice : Fields, speed : {10, 15}]

InitKey == ProgramInit /\ arg \in [a : Triples, b : Triples] /\ ret = NoRet

\* _get_cache_path of two requests; the digest and the file name are one to
\* one with content_id, which stands for them
GetCachePaths ==
    /\ ~ret.done
    /\ ret' = [done |-> TRUE,
               value |-> [a |-> CacheKey(arg.a.text, arg.a.voice, arg.a.speed),
                          b |-> CacheKey(arg.b.text, arg.b.voice, arg.b.speed)]]
    /\ UNCHANGED arg
    /\ UNCHANGED progVars

SpecKey == InitKey /\ [][GetCachePaths]_vars

\* C14: equal (text, voice, speed) triples give equal keys and distinct
\* triples give distinct keys, also when a text or a voice holds the delimiter.
C14_KeyUnambiguous ==
    ret.done => ((arg.a = arg.b) <=> (ret.value.a = ret.value.b))


\* C15: a zero-length chunk from the engine is skipped: none is waiting in a
\* playback queue, none has been passed to the device, and none is among the
\* pieces accumulated for the cache.
C15_EmptyChunksSkipped ==
    \A i \in Invs :
        /\ \A k \in 1..Len(q[i]) : q[i][k].end \/ q[i][k].audio # <<>>
        /\ \A k \in 1..Len(Plays(i)) : Plays(i)[k] # <<>>
        /\ \A k \in 1..Len(full_audio_pieces[i]) : full_audio_pieces[i][k] # <<>>


\* the engine's sequence has ended without raising
SequenceEnded(i) ==
    hist[i].engineCalled /\ ~hist[i].engineRaised /\ ipc[i] \in {"join", "returned"}
        /\ outcome[i] # Caught("TypeError")

\* the end marker was put once, after every chunk: it is the last item of
\* the queue, or the worker has taken it, or the worker left on an error
MarkerPutLast(i) ==
    /\ \A k \in 1..Len(q[i]) : q[i][k].end => k = Len(q[i])
    /\ \/ q[i] # <<>> /\ q[i][Len(q[i])].end
       \/ hist[i].markerTaken
       \/ playback_error[i] # None

\* every chunk the producer pushed has been played to the end, in order
AllPlayed(i) ==
    /\ Plays(i) = full_audio_pieces[i]
    /\ Len(hist[i].events) = 2 * Len(Plays(i))

\* the coordinator reports playback complete: the streaming path returned
\* without an error
PlaybackComplete(i) ==
    ipc[i] = "returned" /\ hist[i].engineCalled /\ result[i] = Success

\* C16 as stated: the marker is put after the last chunk of a sequence that
\* ends, the worker leaves its loop only by taking the marker, and when
\* playback is reported complete every pushed chunk was played to the end.
C16_ExitOnlyOnMarker ==
    \A i \in Invs :
        /\ SequenceEnded(i) => MarkerPutLast(i)
        /\ cpc[i] = "exited" => hist[i].markerTaken
        /\ PlaybackComplete(i) => AllPlayed(i)

\* C16 amended: the worker leaves its loop by taking the marker or on a
\* playback error it has recorded; when it took the marker it had played
\* every pushed chunk to the end, and so it has when playback is reported
\* complete.
C16_DrainedBeforeComplete ==
    \A i \in Invs :
        /\ SequenceEnded(i) => MarkerPutLast(i)
        /\ cpc[i] = "exited" => (hist[i].markerTaken \/ playback_error[i] # None)
        /\ hist[i].markerTaken =>
              SequenceEnded(i) /\ q[i] = <<>> /\ cpc[i] = "exited" /\ AllPlayed(i)
        /\ PlaybackComplete(i) => hist[i].markerTaken /\ AllPlayed(i)

\* playback of a sequence of MaxChunks chunks is reported complete
C16_Witness ==
    \E i \in Invs : PlaybackComplete(i) /\ Len(Plays(i)) = MaxChunks

\* playback of an empty sequence is reported complete
C16_EmptyWitness ==
    \E i \in Invs : PlaybackComplete(i) /\ hist[i].markerTaken /\ Plays(i) = <<>>
                    /\ ~hist[i].malformed


\* the device failed while the worker of invocation i played a chunk, and
\* the invocation had not returned by then
DeviceFailed(i) == playback_error[i] # None /\ ~hist[i].failedLate

\* C17: after the device failed under the worker, the worker has recorded the
\* error and left, the producer is not blocked and can end its sequence, the
\* wait for the worker ends, and the invocation returns that playback error.
C17_PlaybackErrorReturned ==
    \A i \in Invs :
        DeviceFailed(i) =>
            /\ cpc[i] = "exited"
            /\ ipc[i] = "gen" => ENABLED GenStop(i)
            /\ ipc[i] = "join" => ENABLED JoinSave(i)
            /\ ipc[i] = "returned" => result[i] = SpeakError(playback_error[i])

\* the same, for an engine that does not raise after the device failed
PlaybackErrorReturnedUnlessEngineRaises ==
    \A i \in Invs :
        DeviceFailed(i) =>
            /\ cpc[i] = "exited"
            /\ ipc[i] = "gen" => ENABLED GenStop(i)
            /\ ipc[i] = "join" => ENABLED JoinSave(i)
            /\ ipc[i] = "returned" /\ ~hist[i].engineRaised =>
                  result[i] = SpeakError(playback_error[i])


\* a step of a speak invocation or of its worker
SpeakStep == ipc' # ipc \/ cpc' # cpc

\* C18: initialization of the engine is started exactly once, and the handle
\* is written once: only the one initialization, before the server serves,
\* assigns pipeline, and no step of a speak invocation starts an
\* initialization or changes the handle.
C18_InitOnceHandleWriteOnce ==
    [][ /\ initCount' # initCount => (initCount = 0 /\ initCount' = 1)
        /\ pipeline' # pipeline => (mainpc = "init" /\ mainpc' = "serving")
        /\ mainpc = "serving" =>
              /\ initCount = 1
              /\ initCount' = 1 /\ pipeline' = pipeline /\ mainpc' = "serving"
        /\ SpeakStep =>
              /\ mainpc = "serving"
              /\ initCount' = initCount /\ pipeline' = pipeline /\ mainpc' = mainpc
      ]_vars

\* every invocation has run to its end, one of them through the engine,
\* after the one initialization
C18_Witness ==
    /\ initCount = 1
    /\ pipeline # None
    /\ \A i \in Invs : ipc[i] = "returned" /\ ~IsBlank(req[i].text)
    /\ \E i \in Invs : hist[i].engineCalled


\* the chunks waiting in the queue of invocation i
Waiting(i) == Len(SelectSeq(q[i], LAMBDA item : ~item.end))

\* C19: the queue has a capacity that does not depend on how many chunks the
\* engine produces, so the chunks of an utterance of MaxChunks chunks are
\* never all waiting in it at once.
C19_QueueBounded == \A i \in Invs : Waiting(i) < MaxChunks


\* the replay of an existing entry failed and the invocation went on to
\* stream: the worker was started, and once the invocation has returned the
\* engine was invoked and an error result stems from the streaming itself
FellThrough(i) ==
    /\ ipc[i] \in {"redirect", "gen", "join", "returned"}
    /\ cpc[i] # "none"
    /\ ipc[i] = "returned" =>
          /\ hist[i].engineCalled
          /\ IsError(result[i]) => (hist[i].engineRaised \/ playback_error[i] # None)

\* no other invocation has written the cache since invocation i was called
OnlyWriter(i) == \A j \in Invs \ {i} : ~hist[j].saveTried \/ j \in hist[i].after

\* C20 as stated: a failure of the load or of the replay of an existing
\* entry does not fail the invocation; it streams through the engine, and
\* when that succeeds the entry has been overwritten and success is reported.
C20_ReplayFaultOverwrites ==
    \A i \in Invs :
        hist[i].replayFault =>
            /\ FellThrough(i)
            /\ ipc[i] = "returned" /\ result[i] = Success =>
                  /\ hist[i].stored
                  /\ OnlyWriter(i) =>
                        cache[Key(i)] = Saved(Concat(full_audio_pieces[i]))

\* C20 amended: the overwrite is attempted when the streaming gave at least
\* one chunk, and the entry holds the new audio when that write succeeded;
\* success is reported either way.
C20_ReplayFaultFallsThrough ==
    \A i \in Invs :
        hist[i].replayFault =>
            /\ FellThrough(i)
            /\ ipc[i] = "returned" /\ ~IsError(result[i]) =>
                  /\ result[i] = Success
                  /\ hist[i].saveTried <=> full_audio_pieces[i] # <<>>
                  /\ hist[i].stored /\ OnlyWriter(i) =>
                        cache[Key(i)] = Saved(Concat(full_audio_pieces[i]))

\* the replay of an entry failed on the device, the invocation streamed
\* MaxChunks chunks through the engine and overwrote the entry
C20_Witness ==
    \E i \in Invs :
        /\ hist[i].replayFault /\ ~hist[i].loadFault
        /\ ipc[i] = "returned" /\ result[i] = Success
        /\ Len(Plays(i)) = MaxChunks
        /\ hist[i].stored /\ OnlyWriter(i)
        /\ cache[Key(i)] = Saved(Concat(full_audio_pieces[i]))

====
